---- MODULE Spec2Model ----
(***************************************************************************)
(* A model of torchao's QAT linear layers (quantization/prototype/qat/     *)
(* api.py) and of the MXTensor operator table (prototype/mx_formats/       *)
(* mx_ops.py).                                                             *)
(*                                                                         *)
(* Real numbers are exact rationals <<n, d>> (d > 0, lowest terms).  A     *)
(* tensor of the QAT part is a sequence of rationals (one token, or one    *)
(* row of a weight); a weight is a sequence of rows.                       *)
(***************************************************************************)
EXTENDS Integers, Sequences, FiniteSets, TLC

VARIABLES
    mod,        \* the module object the QAT program holds (NoModule before construction)
    toggled,    \* history: the value the most recent toggle of mod's own class asked for
    lastCall,   \* the most recent call: its name, arguments, receiver on entry, outcome
    tree,       \* the module tree convert() walks: node -> its parent and module object
    forwarded,  \* history: some layer of the tree has run forward
    heap,       \* MXTensor objects by identity
    cur,        \* identity of the MXTensor the program holds
    made,       \* history: the operator that made each MXTensor object, and from which
    mxCall      \* the most recent operator dispatched to __torch_dispatch__

vars == <<mod, toggled, lastCall, tree, forwarded, heap, cur, made, mxCall>>

qatVars  == <<mod, toggled, lastCall>>
treeVars == <<tree, forwarded>>
mxVars   == <<heap, cur, made, mxCall>>

(***************************************************************************)
(* Bounds                                                                  *)
(***************************************************************************)
\* tensor entries are the integers -1 .. MaxVal
MaxVal == 2
\* the module tree has MaxNodes modules, the model itself included
MaxNodes == 3
\* handlers allocate at most MaxOps MXTensor objects
MaxOps == 2
\* an MXTensor has at most MaxBlocks blocks
MaxBlocks == 2

Vals == (0 - 1) .. MaxVal

(***************************************************************************)
(* Exact rational arithmetic                                               *)
(***************************************************************************)
Abs(n) == IF n < 0 THEN 0 - n ELSE n

RECURSIVE Gcd(_, _)
Gcd(a, b) == IF b = 0 THEN a ELSE Gcd(b, a % b)

Norm(n, d) ==
    LET g == Gcd(Abs(n), d)
    IN  IF n = 0 THEN <<0, 1>> ELSE <<n \div g, d \div g>>

R(n)        == <<n, 1>>
RNeg(a)     == <<0 - a[1], a[2]>>
RAdd(a, b)  ==
    LET g == Gcd(a[2], b[2])
    IN  Norm(a[1] * (b[2] \div g) + b[1] * (a[2] \div g), (a[2] \div g) * b[2])
RSub(a, b)  == RAdd(a, RNeg(b))
RMul(a, b)  ==
    LET g1 == Gcd(Abs(a[1]), b[2])
        g2 == Gcd(Abs(b[1]), a[2])
    IN  IF a[1] = 0 \/ b[1] = 0 THEN <<0, 1>>
        ELSE <<(a[1] \div g1) * (b[1] \div g2), (a[2] \div g2) * (b[2] \div g1)>>
RDiv(a, b)  ==
    IF b[1] > 0 THEN RMul(a, <<b[2], b[1]>>) ELSE RMul(a, <<0 - b[2], 0 - b[1]>>)
RLeq(a, b)  == RSub(a, b)[1] <= 0
RMax2(a, b) == IF RLeq(a, b) THEN b ELSE a
RAbs(a)     == <<Abs(a[1]), a[2]>>

\* torch.round: to the nearest integer, ties to the even one
RRound(a) ==
    LET f == a[1] \div a[2]
        r == a[1] % a[2]
    IN  IF 2 * r < a[2] THEN f
        ELSE IF 2 * r > a[2] THEN f + 1
        ELSE IF f % 2 = 0 THEN f ELSE f + 1

Clamp(n, lo, hi) == IF n < lo THEN lo ELSE IF n > hi THEN hi ELSE n

Range(s)  == {s[i] : i \in DOMAIN s}
RMaxOf(S) == CHOOSE m \in S : \A y \in S : RLeq(y, m)
RMinOf(S) == CHOOSE m \in S : \A y \in S : RLeq(m, y)

\* the sum of s[lo .. hi], halving the range
RECURSIVE RSum(_, _, _)
RSum(s, lo, hi) ==
    IF lo > hi THEN R(0)
    ELSE IF lo = hi THEN s[lo]
    ELSE LET mid == (lo + hi) \div 2
         IN  RAdd(RSum(s, lo, mid), RSum(s, mid + 1, hi))

RECURSIVE TwoPow(_)
TwoPow(n) == IF n = 0 THEN 1 ELSE 2 * TwoPow(n - 1)

(***************************************************************************)
(* Quant/dequant primitives (torchao.quantization.utils, .GPTQ and         *)
(* qat/utils.py), after section 4.1 of the specification                   *)
(***************************************************************************)
\* the "small epsilon" a scale is floored at is 1 / EpsDen
EpsDen == 1000000
Eps    == <<1, EpsDen>>

\* the indices of group k of a row cut into groups of group_size
GroupIdx(k, group_size) == ((k - 1) * group_size + 1) .. (k * group_size)
GroupOf(i, group_size)  == ((i - 1) \div group_size) + 1

\* An operator's body that reads an argument once per element binds the argument's
\* value first (v \in {arg}), so the argument is computed once.

\* per token: scale = (max - min) / (qmax - qmin), zero_point = qmin - round(min / scale)
choose_qparams_per_token_asymmetric(x, qmin, qmax) ==
    LET mn    == RMinOf(Range(x))
        mx    == RMaxOf(Range(x))
        scale == RMax2(RDiv(RSub(mx, mn), R(qmax - qmin)), Eps)
    IN  [scale      |-> scale,
         zero_point |-> Clamp(qmin - RRound(RDiv(mn, scale)), qmin, qmax)]

\* round(x / scale) + zero_point, clamp, then (clamped - zero_point) * scale
fake_quantize_per_token(x, scale, zero_point, qmin, qmax) ==
    CHOOSE res \in {
        [i \in DOMAIN xv |->
            RMul(R(Clamp(RRound(RDiv(xv[i], s)) + zp, qmin, qmax) - zp), s)]
        : xv \in {x}, s \in {scale}, zp \in {zero_point}} : TRUE

\* per group of each row: scale = max(|group|) / qmax, zero_point = 0
get_group_qparams_symmetric(w, n_bit, group_size) ==
    CHOOSE res \in {
        LET qmax == TwoPow(n_bit - 1) - 1
            ngroups(r) == Len(wv[r]) \div group_size
        IN  [scales |-> [r \in DOMAIN wv |-> [k \in 1 .. ngroups(r) |->
                            RMax2(RDiv(RMaxOf({RAbs(wv[r][i]) : i \in GroupIdx(k, group_size)}),
                                       R(qmax)), Eps)]],
             zeros  |-> [r \in DOMAIN wv |-> [k \in 1 .. ngroups(r) |-> R(0)]]]
        : wv \in {w}} : TRUE

\* per group of each row, asymmetric over [0, 2^n_bit - 1]: scale = (max - min) / qmax;
\* the float-domain zero point is the real value the grid's 0 stands for
get_groupwise_affine_qparams(w, n_bit, group_size) ==
    CHOOSE res \in {
        LET qmax == TwoPow(n_bit) - 1
            ngroups(r) == Len(wv[r]) \div group_size
            grp(r, k)  == {wv[r][i] : i \in GroupIdx(k, group_size)}
        IN  [scales |-> [r \in DOMAIN wv |-> [k \in 1 .. ngroups(r) |->
                            RMax2(RDiv(RSub(RMaxOf(grp(r, k)), RMinOf(grp(r, k))), R(qmax)),
                                  Eps)]],
             zeros  |-> [r \in DOMAIN wv |-> [k \in 1 .. ngroups(r) |-> RMinOf(grp(r, k))]]]
        : wv \in {w}} : TRUE

\* integer domain: q = clamp(round(x / s) + zp), value (q - zp) * s
\* float domain:   q = clamp(round((x - zp) / s)), value q * s + zp
fake_quantize_per_channel_group(w, scales, zeros, qmin, qmax, group_size, zero_point_domain) ==
    CHOOSE res \in {
        [r \in DOMAIN wv |-> [i \in DOMAIN wv[r] |->
            LET s  == sc[r][GroupOf(i, group_size)]
                zp == zs[r][GroupOf(i, group_size)]
            IN  IF zero_point_domain = "INT"
                THEN RMul(RSub(R(Clamp(RRound(RAdd(R(RRound(RDiv(wv[r][i], s))), zp)),
                                       qmin, qmax)), zp), s)
                ELSE RAdd(RMul(R(Clamp(RRound(RDiv(RSub(wv[r][i], zp), s)), qmin, qmax)), s),
                          zp)]]
        : wv \in {w}, sc \in {scales}, zs \in {zeros}} : TRUE

\* the integer grid values themselves (the true quantization convert() stores)
quantize_per_channel_group(w, scales, zeros, qmin, qmax, group_size) ==
    CHOOSE res \in {
        [r \in DOMAIN wv |-> [i \in DOMAIN wv[r] |->
            Clamp(RRound(RAdd(R(RRound(RDiv(wv[r][i], sc[r][GroupOf(i, group_size)]))),
                              zs[r][GroupOf(i, group_size)])), qmin, qmax)]]
        : wv \in {w}, sc \in {scales}, zs \in {zeros}} : TRUE

\* torch.nn.functional.linear without bias: one output per row of the weight
F_linear(x, w) ==
    CHOOSE res \in {
        [r \in DOMAIN wv |->
            CHOOSE sum \in {RSum(prod, 1, Len(xv)) :
                            prod \in {[i \in DOMAIN xv |-> RMul(xv[i], wv[r][i])]}} : TRUE]
        : xv \in {x}, wv \in {w}} : TRUE

(***************************************************************************)
(* Module objects                                                          *)
(***************************************************************************)
None == [cls |-> "NoneType"]

isinstance(m, cls) == m.cls = cls

\* what a call hands back: a value, or an exception and no value
Return(v) == [status |-> "ok", ret |-> v]
Raise(e)  == [status |-> e, ret |-> None]

\* a tensor filled with a known pattern: a, b, 0, a, b, 0, ...
Pattern(n, a, b) ==
    [i \in 1 .. n |-> IF i % 3 = 1 THEN R(a) ELSE IF i % 3 = 2 THEN R(b) ELSE R(0)]
\* one token of in_features activations
Tokens(n) == {Pattern(n, a, b) : a \in Vals, b \in Vals}
\* a weight of out_features rows
WeightsOf(out_features, in_features) ==
    {[r \in 1 .. out_features |-> p] : p \in Tokens(in_features)}

\* torch.nn.Linear.__init__, the base class of both QAT layers
Linear_init(in_features, out_features, bias, precision, w0) ==
    [cls          |-> "Linear",
     in_features  |-> in_features,
     out_features |-> out_features,
     bias         |-> bias,
     dtype        |-> precision,
     weight       |-> w0]

get_qmin_qmax(n_bit) == <<0 - TwoPow(n_bit - 1), TwoPow(n_bit - 1) - 1>>

(***************************************************************************)
(* Int8DynActInt4WeightQATLinear                                           *)
(***************************************************************************)
\* the constructor without its divisibility assertion
Int8DynActInt4WeightQATLinear_init_nocheck(in_features, out_features, bias, groupsize, precision, scales_precision, w0) ==
    IF bias THEN Raise("AssertionError")
    ELSE Return([cls                   |-> "Int8DynActInt4WeightQATLinear",
                 in_features           |-> in_features,
                 out_features          |-> out_features,
                 bias                  |-> bias,
                 dtype                 |-> precision,
                 weight                |-> w0,
                 groupsize             |-> groupsize,
                 precision             |-> precision,
                 scales_precision      |-> scales_precision,
                 zero_points_precision |-> "int32",
                 fake_quant_enabled    |-> TRUE])

Int8DynActInt4WeightQATLinear_init(in_features, out_features, bias, groupsize, precision, scales_precision, w0) ==
    IF in_features % groupsize # 0 THEN Raise("AssertionError")
    ELSE IF bias THEN Raise("AssertionError")
    ELSE Return([cls                   |-> "Int8DynActInt4WeightQATLinear",
                 in_features           |-> in_features,
                 out_features          |-> out_features,
                 bias                  |-> bias,
                 dtype                 |-> precision,
                 weight                |-> w0,
                 groupsize             |-> groupsize,
                 precision             |-> precision,
                 scales_precision      |-> scales_precision,
                 zero_points_precision |-> "int32",
                 fake_quant_enabled    |-> TRUE])

enable_fake_quant(self, enabled) == [self EXCEPT !.fake_quant_enabled = enabled]

\* disable_fake_quant passing the default argument on
disable_fake_quant_noop(self) == enable_fake_quant(self, TRUE)

disable_fake_quant(self) == enable_fake_quant(self, FALSE)

\* a forward that fake-quantizes the weight whatever the flag says
Int8DynActInt4WeightQATLinear_forward_always(self, x) ==
    LET act   == get_qmin_qmax(8)
        aq    == choose_qparams_per_token_asymmetric(x, act[1], act[2])
        x_fq  == IF self.fake_quant_enabled
                 THEN fake_quantize_per_token(x, aq.scale, aq.zero_point, act[1], act[2])
                 ELSE x
        wq    == get_group_qparams_symmetric(self.weight, 4, self.groupsize)
        wr    == get_qmin_qmax(4)
        w_fq  == fake_quantize_per_channel_group(self.weight, wq.scales, wq.zeros,
                                                 wr[1], wr[2], self.groupsize, "INT")
        steps == IF self.fake_quant_enabled
                 THEN <<[fn |-> "fake_quantize_per_token", on |-> "x",
                         qmin |-> act[1], qmax |-> act[2]],
                        [fn |-> "fake_quantize_per_channel_group", on |-> "weight",
                         qmin |-> wr[1], qmax |-> wr[2]]>>
                 ELSE <<>>
    IN  [out |-> F_linear(x_fq, w_fq), x_fq |-> x_fq, w_fq |-> w_fq, steps |-> steps,
         linear_bias |-> None]

\* the calls forward makes, in order, are kept in "steps"
Int8DynActInt4WeightQATLinear_forward(self, x) ==
    LET act   == get_qmin_qmax(8)
        aq    == choose_qparams_per_token_asymmetric(x, act[1], act[2])
        x_fq  == IF self.fake_quant_enabled
                 THEN fake_quantize_per_token(x, aq.scale, aq.zero_point, act[1], act[2])
                 ELSE x
        wq    == get_group_qparams_symmetric(self.weight, 4, self.groupsize)
        wr    == get_qmin_qmax(4)
        w_fq  == IF self.fake_quant_enabled
                 THEN fake_quantize_per_channel_group(self.weight, wq.scales, wq.zeros,
                                                      wr[1], wr[2], self.groupsize, "INT")
                 ELSE self.weight
        steps == IF self.fake_quant_enabled
                 THEN <<[fn |-> "fake_quantize_per_token", on |-> "x",
                         qmin |-> act[1], qmax |-> act[2]],
                        [fn |-> "fake_quantize_per_channel_group", on |-> "weight",
                         qmin |-> wr[1], qmax |-> wr[2]]>>
                 ELSE <<>>
    IN  CHOOSE res \in {
            [out |-> F_linear(xq, wf), x_fq |-> xq, w_fq |-> wf, steps |-> steps,
             linear_bias |-> None] : xq \in {x_fq}, wf \in {w_fq}} : TRUE

enable_8da4w_fake_quant(m) ==
    IF isinstance(m, "Int8DynActInt4WeightQATLinear") THEN enable_fake_quant(m, TRUE) ELSE m

disable_8da4w_fake_quant(m) ==
    IF isinstance(m, "Int8DynActInt4WeightQATLinear") THEN disable_fake_quant(m) ELSE m

(***************************************************************************)
(* Int4WeightOnlyQATLinear                                                 *)
(***************************************************************************)
\* torchao.quantization.GPTQ._check_linear_int4_k
check_linear_int4_k(k, groupsize, inner_k_tiles) ==
    k % groupsize = 0 /\ k % (inner_k_tiles * 16) = 0

Int4WeightOnlyQATLinear_init(in_features, out_features, bias, groupsize, inner_k_tiles, precision, scales_precision, w0) ==
    IF bias THEN Raise("AssertionError")
    ELSE IF scales_precision # "bfloat16" THEN Raise("AssertionError")
    ELSE IF ~check_linear_int4_k(in_features, groupsize, inner_k_tiles)
         THEN Raise("ValueError")
    ELSE Return([cls                |-> "Int4WeightOnlyQATLinear",
                 in_features        |-> in_features,
                 out_features       |-> out_features,
                 bias               |-> bias,
                 dtype              |-> precision,
                 weight             |-> w0,
                 groupsize          |-> groupsize,
                 inner_k_tiles      |-> inner_k_tiles,
                 precision          |-> precision,
                 scales_precision   |-> scales_precision,
                 fake_quant_enabled |-> TRUE])

\* a weight-only forward that honours the flag, as the other layer's does
Int4WeightOnlyQATLinear_forward_flagged(self, x) ==
    LET qp    == get_groupwise_affine_qparams(self.weight, 4, self.groupsize)
        w_fq  == IF self.fake_quant_enabled
                 THEN fake_quantize_per_channel_group(self.weight, qp.scales, qp.zeros,
                                                      0, 15, self.groupsize, "FLOAT")
                 ELSE self.weight
    IN  [out |-> F_linear(x, w_fq), x_fq |-> x, w_fq |-> w_fq,
         steps |-> IF self.fake_quant_enabled
                   THEN <<[fn |-> "fake_quantize_per_channel_group", on |-> "weight",
                           qmin |-> 0, qmax |-> 15]>>
                   ELSE <<>>,
         linear_bias |-> None]

Int4WeightOnlyQATLinear_forward(self, x) ==
    LET n_bit == 4
        qmin  == 0
        qmax  == TwoPow(n_bit) - 1
        qp    == get_groupwise_affine_qparams(self.weight, n_bit, self.groupsize)
        w_fq  == fake_quantize_per_channel_group(self.weight, qp.scales, qp.zeros,
                                                 qmin, qmax, self.groupsize, "FLOAT")
    IN  CHOOSE res \in {
            [out |-> F_linear(x, wf), x_fq |-> x, w_fq |-> wf,
             steps |-> <<[fn |-> "fake_quantize_per_channel_group", on |-> "weight",
                          qmin |-> qmin, qmax |-> qmax]>>,
             linear_bias |-> None] : wf \in {w_fq}} : TRUE

enable_4w_fake_quant(m) ==
    IF isinstance(m, "Int4WeightOnlyQATLinear") THEN enable_fake_quant(m, TRUE) ELSE m

disable_4w_fake_quant(m) ==
    IF isinstance(m, "Int4WeightOnlyQATLinear") THEN disable_fake_quant(m) ELSE m

QATClasses == {"Int8DynActInt4WeightQATLinear", "Int4WeightOnlyQATLinear"}

\* Python's method lookup: which class's forward a module object runs
forward(m, x) ==
    IF isinstance(m, "Int8DynActInt4WeightQATLinear")
    THEN Int8DynActInt4WeightQATLinear_forward(m, x)
    ELSE Int4WeightOnlyQATLinear_forward(m, x)

(***************************************************************************)
(* The QAT program: one module variable that is constructed, toggled,      *)
(* trained (its weight overwritten in place) and called                    *)
(***************************************************************************)
\* (in_features, groupsize) pairs handed to the constructors
ConfigSet8da4w == {<<2, 1>>, <<2, 2>>, <<2, 100>>, <<256, 100>>}
ConfigSet4w    == {<<16, 8>>, <<16, 100>>, <<2, 2>>}
InnerKTilesSet == {1, 2}
OutFeaturesSet == {1}

Call(op, args, self, res) ==
    [op |-> op, args |-> args, self |-> self, status |-> res.status, ret |-> res.ret]

IdleTree == <<>>
IdleHeap == <<>>

InitQAT ==
    /\ mod = None
    /\ toggled = TRUE
    /\ lastCall = Call("none", <<>>, None, Return(None))
    /\ tree = IdleTree
    /\ forwarded = FALSE
    /\ heap = IdleHeap
    /\ cur = 0
    /\ made = <<>>
    /\ mxCall = Call("none", <<>>, None, Return(None))

\* mod = Int8DynActInt4WeightQATLinear(...): a raise leaves the variable unassigned
Construct8da4w ==
  /\ mod = None
  /\ \E cfg \in ConfigSet8da4w, o \in OutFeaturesSet, bias \in BOOLEAN :
      \E w0 \in WeightsOf(o, cfg[1]) :
        LET r == Int8DynActInt4WeightQATLinear_init(cfg[1], o, bias, cfg[2], "float32", "float32", w0)
        IN  /\ mod' = IF r.status = "ok" THEN r.ret ELSE mod
            /\ toggled' = IF r.status = "ok" THEN TRUE ELSE toggled
            /\ lastCall' = Call("Int8DynActInt4WeightQATLinear",
                                [in_features |-> cfg[1], groupsize |-> cfg[2], bias |-> bias],
                                None, r)
            /\ UNCHANGED <<treeVars, mxVars>>

Construct4w ==
  /\ mod = None
  /\ \E cfg \in ConfigSet4w, o \in OutFeaturesSet, bias \in BOOLEAN, ikt \in InnerKTilesSet,
       sp \in {"bfloat16", "float32"} :
      \E w0 \in WeightsOf(o, cfg[1]) :
        LET r == Int4WeightOnlyQATLinear_init(cfg[1], o, bias, cfg[2], ikt, "bfloat16", sp, w0)
        IN  /\ mod' = IF r.status = "ok" THEN r.ret ELSE mod
            /\ toggled' = IF r.status = "ok" THEN TRUE ELSE toggled
            /\ lastCall' = Call("Int4WeightOnlyQATLinear",
                                [in_features |-> cfg[1], groupsize |-> cfg[2], bias |-> bias,
                                 inner_k_tiles |-> ikt, scales_precision |-> sp],
                                None, r)
            /\ UNCHANGED <<treeVars, mxVars>>

\* a module of another class: a plain torch.nn.Linear
ConstructLinear ==
  /\ mod = None
  /\ \E o \in OutFeaturesSet, bias \in BOOLEAN : \E w0 \in WeightsOf(o, 2) :
        /\ mod' = Linear_init(2, o, bias, "float32", w0)
        /\ lastCall' = Call("Linear", [in_features |-> 2, bias |-> bias], None, Return(mod'))
        /\ UNCHANGED <<toggled, treeVars, mxVars>>

\* mod.enable_fake_quant(b)
EnableFakeQuant ==
    /\ mod.cls \in QATClasses
    /\ \E b \in BOOLEAN :
        /\ mod' = enable_fake_quant(mod, b)
        /\ toggled' = b
        /\ lastCall' = Call("enable_fake_quant", <<b>>, mod, Return(None))
    /\ UNCHANGED <<treeVars, mxVars>>

\* mod.disable_fake_quant()
DisableFakeQuant ==
    /\ mod.cls \in QATClasses
    /\ mod' = disable_fake_quant(mod)
    /\ toggled' = FALSE
    /\ lastCall' = Call("disable_fake_quant", <<>>, mod, Return(None))
    /\ UNCHANGED <<treeVars, mxVars>>

\* the module visitors, as model.apply(fn) calls them on any module
Enable8da4w ==
    /\ mod # None
    /\ mod' = enable_8da4w_fake_quant(mod)
    /\ toggled' = IF isinstance(mod, "Int8DynActInt4WeightQATLinear") THEN TRUE ELSE toggled
    /\ lastCall' = Call("enable_8da4w_fake_quant", <<>>, mod, Return(None))
    /\ UNCHANGED <<treeVars, mxVars>>

Disable8da4w ==
    /\ mod # None
    /\ mod' = disable_8da4w_fake_quant(mod)
    /\ toggled' = IF isinstance(mod, "Int8DynActInt4WeightQATLinear") THEN FALSE ELSE toggled
    /\ lastCall' = Call("disable_8da4w_fake_quant", <<>>, mod, Return(None))
    /\ UNCHANGED <<treeVars, mxVars>>

Enable4w ==
    /\ mod # None
    /\ mod' = enable_4w_fake_quant(mod)
    /\ toggled' = IF isinstance(mod, "Int4WeightOnlyQATLinear") THEN TRUE ELSE toggled
    /\ lastCall' = Call("enable_4w_fake_quant", <<>>, mod, Return(None))
    /\ UNCHANGED <<treeVars, mxVars>>

Disable4w ==
    /\ mod # None
    /\ mod' = disable_4w_fake_quant(mod)
    /\ toggled' = IF isinstance(mod, "Int4WeightOnlyQATLinear") THEN FALSE ELSE toggled
    /\ lastCall' = Call("disable_4w_fake_quant", <<>>, mod, Return(None))
    /\ UNCHANGED <<treeVars, mxVars>>

\* the optimizer step of the training loop overwrites the weight in place
WeightUpdate ==
    /\ mod # None
    /\ \E w \in WeightsOf(mod.out_features, mod.in_features) :
        /\ mod' = [mod EXCEPT !.weight = w]
        /\ lastCall' = Call("optimizer_step", <<>>, mod, Return(None))
    /\ UNCHANGED <<toggled, treeVars, mxVars>>

\* mod(x): forward assigns no attribute of the module
Forward ==
    /\ mod.cls \in QATClasses
    /\ \E x \in Tokens(mod.in_features) :
        lastCall' = Call("forward", <<x>>, mod, Return(forward(mod, x)))
    /\ UNCHANGED <<mod, toggled, treeVars, mxVars>>

NextQAT ==
    \/ Construct8da4w
    \/ Construct4w
    \/ ConstructLinear
    \/ EnableFakeQuant
    \/ DisableFakeQuant
    \/ Enable8da4w
    \/ Disable8da4w
    \/ Enable4w
    \/ Disable4w
    \/ WeightUpdate
    \/ Forward

SpecQAT == InitQAT /\ [][NextQAT]_vars

(***************************************************************************)
(* The module tree and Int8DynActInt4WeightQATQuantizer.convert            *)
(*                                                                         *)
(* Node 1 is the model; tree[n].parent is the module holding node n under  *)
(* the attribute name n, tree[n].m the object held there.                  *)
(***************************************************************************)
Nodes == 1 .. MaxNodes

Container == [cls |-> "Module"]
Detached  == [parent |-> 0 - 1, m |-> None]

IsLive(t, n) == t[n].parent >= 0

\* torch.nn.Module.named_children: the attributes of node n holding a module, in order
named_children(t, n) == {c \in DOMAIN t : t[c].parent = n}

RECURSIVE Descendants(_, _)
Descendants(t, n) ==
    named_children(t, n) \cup UNION {Descendants(t, c) : c \in named_children(t, n)}

\* GPTQ.Int8DynActInt4WeightLinear.__init__: empty buffers, filled in by convert
Int8DynActInt4WeightLinear_init(in_features, out_features, bias, groupsize, precision, scales_precision) ==
    [cls              |-> "Int8DynActInt4WeightLinear",
     in_features      |-> in_features,
     out_features     |-> out_features,
     bias             |-> bias,
     groupsize        |-> groupsize,
     precision        |-> precision,
     scales_precision |-> scales_precision,
     weight           |-> <<>>,
     scales           |-> <<>>,
     zeros            |-> <<>>]

\* the body of the isinstance branch: build the quantized layer from the child
QuantizedFrom(child) ==
    LET quantized_linear == Int8DynActInt4WeightLinear_init(child.in_features, child.out_features, FALSE, child.groupsize, child.precision, child.scales_precision)
        n_bit == 4
        qr    == get_qmin_qmax(n_bit)
        qp    == get_group_qparams_symmetric(child.weight, n_bit, child.groupsize)
        q_weight == quantize_per_channel_group(child.weight, qp.scales, qp.zeros, qr[1], qr[2], child.groupsize)
    IN  [quantized_linear EXCEPT !.weight = q_weight, !.scales = qp.scales, !.zeros = qp.zeros]

\* setattr(module, name, quantized_linear): the old child and all it held are gone
SetAttr(t, c, obj) ==
    [n \in DOMAIN t |->
        IF n = c THEN [t[c] EXCEPT !.m = obj]
        ELSE IF n \in Descendants(t, c) THEN Detached
        ELSE t[n]]

Min(S) == CHOOSE x \in S : \A y \in S : x <= y

\* a convert that replaces the direct children only and never recurses
RECURSIVE convert_qat_linear_8da4w_shallow(_, _, _)
convert_qat_linear_8da4w_shallow(st, module, todo) ==
    IF todo = {} THEN st
    ELSE LET c     == Min(todo)
             child == st.tree[c].m
             seen  == [st EXCEPT !.visited = Append(@, c)]
         IN  IF isinstance(child, "Int8DynActInt4WeightQATLinear")
             THEN convert_qat_linear_8da4w_shallow([seen EXCEPT !.tree = SetAttr(@, c, QuantizedFrom(child))], module, todo \ {c})
             ELSE convert_qat_linear_8da4w_shallow(seen, module, todo \ {c})

\* _convert_qat_linear_8da4w(module), with "todo" the children its loop has yet to
\* take; st.tree is the tree so far, st.visited the children taken so far
RECURSIVE convert_qat_linear_8da4w(_, _, _)
convert_qat_linear_8da4w(st, module, todo) ==
    IF todo = {} THEN st
    ELSE LET c     == Min(todo)
             child == st.tree[c].m
             seen  == [st EXCEPT !.visited = Append(@, c)]
         IN  IF isinstance(child, "Int8DynActInt4WeightQATLinear")
             THEN convert_qat_linear_8da4w([seen EXCEPT !.tree = SetAttr(@, c, QuantizedFrom(child))], module, todo \ {c})
             ELSE convert_qat_linear_8da4w(
                      convert_qat_linear_8da4w(seen, c, named_children(seen.tree, c)),
                      module, todo \ {c})

\* Int8DynActInt4WeightQATQuantizer.convert(model)
Quantizer_convert(t) ==
    convert_qat_linear_8da4w([tree |-> t, visited |-> <<>>], 1, named_children(t, 1))

TreeWeights == {Pattern(2, 2, 1), Pattern(2, 0 - 1, 2)}
TreeTokens  == {Pattern(2, 0 - 1, 1)}

TreeLayer(groupsize, w) ==
    Int8DynActInt4WeightQATLinear_init(2, 1, FALSE, groupsize, "float32", "float32", <<w>>).ret

\* the modules node n may hold when the program starts: a container, a plain Linear,
\* or a QAT layer (groupsize 1 at odd nodes, 2 at even ones)
TreeModules(n) ==
    {Container,
     Linear_init(2, 1, FALSE, "float32", <<Pattern(2, 2, 1)>>),
     TreeLayer(IF n % 2 = 1 THEN 1 ELSE 2, Pattern(2, 2, 1))}

InitTree ==
    /\ mod = None
    /\ toggled = TRUE
    /\ lastCall = Call("none", <<>>, None, Return(None))
    /\ \E parent \in [Nodes -> 0 .. MaxNodes] :
          /\ parent[1] = 0
          /\ \A n \in Nodes \ {1} : parent[n] \in 1 .. (n - 1)
          /\ \E m \in [Nodes -> UNION {TreeModules(n) : n \in Nodes}] :
                /\ \A n \in Nodes : m[n] \in TreeModules(n)
                /\ tree = [n \in Nodes |-> [parent |-> parent[n], m |-> m[n]]]
    /\ forwarded = FALSE
    /\ heap = IdleHeap
    /\ cur = 0
    /\ made = <<>>
    /\ mxCall = Call("none", <<>>, None, Return(None))

LiveLayers == {n \in Nodes : IsLive(tree, n) /\ isinstance(tree[n].m, "Int8DynActInt4WeightQATLinear")}

\* tree[n].m.enable_fake_quant(b)
TreeToggle ==
    /\ \E n \in LiveLayers, b \in BOOLEAN :
        tree' = [tree EXCEPT ![n].m = enable_fake_quant(@, b)]
    /\ UNCHANGED <<qatVars, forwarded, mxVars>>

\* the optimizer step on one layer's weight
TreeWeightUpdate ==
    /\ \E n \in LiveLayers, w \in TreeWeights :
        tree' = [tree EXCEPT ![n].m.weight = <<w>>]
    /\ UNCHANGED <<qatVars, forwarded, mxVars>>

\* tree[n].m(x): forward assigns no attribute of the module, its result is dropped
TreeForward ==
    /\ \E n \in LiveLayers, x \in TreeTokens :
        forward(tree[n].m, x).linear_bias = None
    /\ forwarded' = TRUE
    /\ UNCHANGED <<qatVars, tree, mxVars>>

\* quantizer.convert(model): the whole traversal
Convert ==
    /\ LET st == Quantizer_convert(tree)
       IN  /\ tree' = st.tree
           /\ lastCall' = Call("convert", st.visited, tree, Return(tree'))
    /\ UNCHANGED <<mod, toggled, forwarded, mxVars>>

NextTree ==
    \/ TreeToggle
    \/ TreeWeightUpdate
    \/ TreeForward
    \/ Convert

SpecConvert == InitTree /\ [][NextTree]_vars

(***************************************************************************)
(* MXTensor and its operator table                                         *)
(*                                                                         *)
(* heap[i] is the MXTensor object with identity i; a handler receives the  *)
(* heap, the operator, args and kwargs and hands back the heap it leaves   *)
(* and what the call returned or raised.  Every argument is a tagged       *)
(* value: a reference to an MXTensor, a plain tensor, a list of ints, an   *)
(* int.  __torch_dispatch__ hands kwargs over as a dict.                   *)
(***************************************************************************)
DTYPE_FP4_E2M1 == "fp4_e2m1"
DTYPE_FP4_E3M0 == "fp4_e3m0"

ElemDtypes == {"float8_e4m3fn", DTYPE_FP4_E2M1, DTYPE_FP4_E3M0}
BlockSizes == {4}
OrigDtypes == {"float32"}

IsFp4(elem_dtype) == elem_dtype = DTYPE_FP4_E2M1 \/ elem_dtype = DTYPE_FP4_E3M0

MXRef(id)     == [cls |-> "MXTensor", id |-> id]
IntList(s)    == [cls |-> "list", items |-> s]
IntArg(i)     == [cls |-> "int", val |-> i]
Dict(f)       == [cls |-> "dict", items |-> f]
EmptyDict     == Dict([k \in {} |-> "none"])
DtypeKw(d)    == Dict([k \in {"dtype"} |-> d])
DtypeDeviceKw(d) == Dict([k \in {"dtype", "device"} |-> IF k = "dtype" THEN d ELSE "cpu"])
DeviceKw      == Dict([k \in {"device"} |-> "cpu"])
len(kwargs)   == Cardinality(DOMAIN kwargs.items)

\* a plain tensor: dtype, shape, whether its two non-trivial axes are stored
\* column-major, and what it holds
Tensor(dtype, shape, transposed, value) ==
    [cls |-> "Tensor", dtype |-> dtype, shape |-> shape, transposed |-> transposed, value |-> value]

Outcome(h, res) == [heap |-> h, status |-> res.status, ret |-> res.ret]

RECURSIVE Prod(_)
Prod(s) == IF s = <<>> THEN 1 ELSE Head(s) * Prod(Tail(s))

numel(t) == Prod(t.shape)

Squeeze(s) == SelectSeq(s, LAMBDA d : d # 1)

is_contiguous(t) == ~t.transposed

\* mx_tensor.tensor_size_hp_to_fp4x2: two 4-bit elements per byte along the packed axis
tensor_size_hp_to_fp4x2(orig_size, contiguous) ==
    IF contiguous
    THEN [orig_size EXCEPT ![Len(orig_size)] = @ \div 2]
    ELSE [orig_size EXCEPT ![1] = @ \div 2]

\* mx_tensor.tensor_size_fp4x2_to_hp: the logical shape of packed 4-bit data
tensor_size_fp4x2_to_hp(orig_size, contiguous) ==
    IF contiguous
    THEN [orig_size EXCEPT ![Len(orig_size)] = @ * 2]
    ELSE [orig_size EXCEPT ![1] = @ * 2]

\* the shape an MXTensor object presents
LogicalShape(x) ==
    IF IsFp4(x.elem_dtype)
    THEN tensor_size_fp4x2_to_hp(x.data.shape, is_contiguous(x.data))
    ELSE x.data.shape

\* MXTensor(scale_e8m0_bits, data_bits, elem_dtype, block_size, orig_dtype): a new object
MXTensor_new(h, scale_e8m0_bits, data_bits, elem_dtype, block_size, orig_dtype) ==
    [heap   |-> Append(h, [scale_e8m0 |-> scale_e8m0_bits,
                           data       |-> data_bits,
                           elem_dtype |-> elem_dtype,
                           block_size |-> block_size,
                           orig_dtype |-> orig_dtype]),
     status |-> "ok",
     ret    |-> MXRef(Len(h) + 1)]

\* MXTensor.to_dtype(target_dtype): every element decoded from its packed format and
\* multiplied by 2^exponent of its block, as a plain tensor of the target dtype
to_dtype(x, target_dtype) ==
    Tensor(target_dtype, LogicalShape(x), x.data.transposed,
           [fn         |-> "to_dtype",
            scale_e8m0 |-> x.scale_e8m0,
            data       |-> x.data,
            elem_dtype |-> x.elem_dtype,
            block_size |-> x.block_size])

\* ---- the native operators on plain tensors ----
aten_detach(t) == Return(t)

aten_t(t) ==
    IF Len(t.shape) > 2 THEN Raise("RuntimeError")
    ELSE IF Len(t.shape) < 2 THEN Return(t)
    ELSE Return([t EXCEPT !.shape = <<t.shape[2], t.shape[1]>>,
                          !.transposed = IF t.shape[1] = 1 \/ t.shape[2] = 1 THEN FALSE ELSE ~@])

aten_view(t, size) ==
    IF Prod(size) # numel(t) THEN Raise("RuntimeError")
    ELSE IF is_contiguous(t) \/ Squeeze(size) = Squeeze(t.shape)
         THEN Return([t EXCEPT !.shape = size])
         ELSE Raise("RuntimeError")

\* the shape of a @ b, <<0>> when the shapes do not fit
MatmulShape(sa, sb) ==
    CASE Len(sa) = 2 /\ Len(sb) = 2 /\ sa[2] = sb[1] -> <<sa[1], sb[2]>>
      [] Len(sa) = 1 /\ Len(sb) = 1 /\ sa[1] = sb[1] -> <<>>
      [] Len(sa) = 2 /\ Len(sb) = 1 /\ sa[2] = sb[1] -> <<sa[1]>>
      [] Len(sa) = 1 /\ Len(sb) = 2 /\ sa[1] = sb[1] -> <<sb[2]>>
      [] Len(sa) = 3 /\ Len(sb) = 2 /\ sa[3] = sb[1] -> <<sa[1], sa[2], sb[2]>>
      [] Len(sa) = 3 /\ Len(sb) = 1 /\ sa[3] = sb[1] -> <<sa[1], sa[2]>>
      [] OTHER -> <<0>>

aten_mm(aten_op, a, b) ==
    LET shape == MatmulShape(a.shape, b.shape)
    IN  IF a.dtype # b.dtype \/ shape = <<0>> THEN Raise("RuntimeError")
        ELSE IF aten_op = "aten.mm.default" /\ (Len(a.shape) # 2 \/ Len(b.shape) # 2)
             THEN Raise("RuntimeError")
             ELSE Return(Tensor(a.dtype, shape, FALSE, [fn |-> aten_op, args |-> <<a, b>>]))

\* s broadcasts to the two-dimensional shape target
Broadcasts(s, target) ==
    /\ Len(s) <= 2
    /\ \A i \in 1 .. Len(s) : s[i] = 1 \/ s[i] = target[i + 2 - Len(s)]

aten_addmm(aten_op, a, b, c) ==
    LET shape == MatmulShape(b.shape, c.shape)
    IN  IF Len(b.shape) # 2 \/ Len(c.shape) # 2 \/ shape = <<0>> THEN Raise("RuntimeError")
        ELSE IF a.dtype # b.dtype \/ b.dtype # c.dtype THEN Raise("RuntimeError")
        ELSE IF ~Broadcasts(a.shape, shape) THEN Raise("RuntimeError")
        ELSE Return(Tensor(b.dtype, shape, FALSE, [fn |-> aten_op, args |-> <<a, b, c>>]))

aten_sum(aten_op, t, dims) ==
    IF \E i \in 1 .. Len(dims.items) : dims.items[i] < 0 \/ dims.items[i] >= Len(t.shape)
    THEN Raise("IndexError")
    ELSE LET kept == {i \in 1 .. Len(t.shape) : \A j \in 1 .. Len(dims.items) : dims.items[j] # i - 1}
             Pick[i \in 0 .. Len(t.shape)] ==
                 IF i = 0 THEN <<>>
                 ELSE IF i \in kept THEN Append(Pick[i - 1], t.shape[i]) ELSE Pick[i - 1]
         IN  Return(Tensor(t.dtype, Pick[Len(t.shape)], FALSE, [fn |-> aten_op, args |-> <<t, dims>>]))

native(aten_op, args) ==
    CASE aten_op \in {"aten.mm.default", "aten.matmul.default"} -> aten_mm(aten_op, args[1], args[2])
      [] aten_op = "aten.addmm.default"   -> aten_addmm(aten_op, args[1], args[2], args[3])
      [] aten_op = "aten.sum.dim_IntList" -> aten_sum(aten_op, args[1], args[2])
      [] OTHER -> Raise("RuntimeError")

RECURSIVE torch_dispatch(_, _, _, _)

\* aten_op(*args): the call comes back to __torch_dispatch__ when an MXTensor is among args
aten_call(h, aten_op, args, kwargs) ==
    IF \E i \in 1 .. Len(args) : isinstance(args[i], "MXTensor")
    THEN torch_dispatch(h, aten_op, args, kwargs)
    ELSE Outcome(h, native(aten_op, args))

\* ---- the handlers ----
mx_desugar_op(h, aten_op, args, kwargs) ==
    LET old      == h[args[1].id]
        new_data == aten_detach(old.data)
        new      == MXTensor_new(h, old.scale_e8m0, new_data.ret, old.elem_dtype, old.block_size, old.orig_dtype)
    IN  new

\* an mx_mm that decodes both operands to the dtype of the first
mx_mm_one_dtype(h, aten_op, args, kwargs) ==
    LET a == args[1]
        b == args[2]
    IN  IF ~(isinstance(a, "MXTensor") /\ isinstance(b, "MXTensor"))
        THEN Outcome(h, Raise("AssertionError"))
        ELSE LET a_hp == to_dtype(h[a.id], h[a.id].orig_dtype)
                 b_hp == to_dtype(h[b.id], h[a.id].orig_dtype)
             IN  aten_call(h, aten_op, <<a_hp, b_hp>>, EmptyDict)

mx_mm(h, aten_op, args, kwargs) ==
    LET a == args[1]
        b == args[2]
    IN  IF ~(isinstance(a, "MXTensor") /\ isinstance(b, "MXTensor"))
        THEN Outcome(h, Raise("AssertionError"))
        ELSE LET a_hp == to_dtype(h[a.id], h[a.id].orig_dtype)
                 b_hp == to_dtype(h[b.id], h[b.id].orig_dtype)
                 res  == aten_call(h, aten_op, <<a_hp, b_hp>>, EmptyDict)
             IN  res

mx_addmm(h, aten_op, args, kwargs) ==
    LET a == args[1]
        b == args[2]
        c == args[3]
    IN  IF ~(isinstance(b, "MXTensor") /\ isinstance(c, "MXTensor"))
        THEN Outcome(h, Raise("AssertionError"))
        ELSE LET b_hp == to_dtype(h[b.id], h[b.id].orig_dtype)
                 c_hp == to_dtype(h[c.id], h[c.id].orig_dtype)
                 res  == aten_call(h, aten_op, <<a, b_hp, c_hp>>, EmptyDict)
             IN  res

\* an mx_t that transposes the data of its argument in place and returns the argument
mx_t_inplace(h, aten_op, args, kwargs) ==
    LET old      == h[args[1].id]
        new_data == aten_t(old.data)
    IN  IF new_data.status # "ok" THEN Outcome(h, new_data)
        ELSE [heap |-> [h EXCEPT ![args[1].id].data = new_data.ret], status |-> "ok", ret |-> args[1]]

mx_t(h, aten_op, args, kwargs) ==
    LET old      == h[args[1].id]
        new_data == aten_t(old.data)
    IN  IF new_data.status # "ok" THEN Outcome(h, new_data)
        ELSE MXTensor_new(h, old.scale_e8m0, new_data.ret, old.elem_dtype, old.block_size, old.orig_dtype)

mx_cast_up_op(h, aten_op, args, kwargs) ==
    LET unwrap(x) == IF isinstance(x, "MXTensor") THEN to_dtype(h[x.id], h[x.id].orig_dtype) ELSE x
        new_args  == [i \in 1 .. Len(args) |-> unwrap(args[i])]
    IN  aten_call(h, aten_op, new_args, kwargs)

\* an mx_view_op that hands the requested shape to the native view whatever the format
mx_view_op_untranslated(h, aten_op, args, kwargs) ==
    LET old      == h[args[1].id]
        new_data == aten_view(old.data, args[2].items)
    IN  IF new_data.status # "ok" THEN Outcome(h, new_data)
        ELSE MXTensor_new(h, old.scale_e8m0, new_data.ret, old.elem_dtype, old.block_size, old.orig_dtype)

mx_view_op(h, aten_op, args, kwargs) ==
    LET old      == h[args[1].id]
        data     == old.data
        new_size == IF old.elem_dtype = DTYPE_FP4_E2M1 \/ old.elem_dtype = DTYPE_FP4_E3M0
                    THEN tensor_size_hp_to_fp4x2(args[2].items, is_contiguous(data))
                    ELSE args[2].items
        new_data == aten_view(data, new_size)
    IN  IF new_data.status # "ok" THEN Outcome(h, new_data)
        ELSE MXTensor_new(h, old.scale_e8m0, new_data.ret, old.elem_dtype, old.block_size, old.orig_dtype)

\* an autocast_to_copy that only asks for a dtype among the kwargs
autocast_to_copy_lax(h, aten_op, args, kwargs) ==
    IF ~isinstance(args[1], "MXTensor") THEN Outcome(h, Raise("AssertionError"))
    ELSE IF ~("dtype" \in DOMAIN kwargs.items) THEN Outcome(h, Raise("AssertionError"))
    ELSE IF ~(kwargs.items["dtype"] \in {"float16", "bfloat16"}) THEN Outcome(h, Raise("AssertionError"))
    ELSE LET old == h[args[1].id]
         IN  MXTensor_new(h, old.scale_e8m0, old.data, old.elem_dtype, old.block_size, kwargs.items["dtype"])

autocast_to_copy(h, aten_op, args, kwargs) ==
    IF ~isinstance(args[1], "MXTensor") THEN Outcome(h, Raise("AssertionError"))
    ELSE IF ~(len(kwargs) = 1 /\ "dtype" \in DOMAIN kwargs.items) THEN Outcome(h, Raise("AssertionError"))
    ELSE IF ~(kwargs.items["dtype"] \in {"float16", "bfloat16"}) THEN Outcome(h, Raise("AssertionError"))
    ELSE LET old == h[args[1].id]
         IN  MXTensor_new(h, old.scale_e8m0, old.data, old.elem_dtype, old.block_size, kwargs.items["dtype"])

\* ---- the table ----
\* @implements(aten_ops): MX_OPS_TABLE[op] = func for op in aten_ops
implements(table, aten_ops, func) ==
    [op \in DOMAIN table \cup aten_ops |-> IF op \in aten_ops THEN func ELSE table[op]]

EmptyTable == [op \in {} |-> "none"]

\* a table that also takes the general transpose forms to mx_t
MX_OPS_TABLE_any_transpose ==
    implements(implements(implements(implements(implements(implements(implements(EmptyTable,
        {"aten.detach.default"}, "mx_desugar_op"),
        {"aten.mm.default", "aten.matmul.default"}, "mx_mm"),
        {"aten.addmm.default"}, "mx_addmm"),
        {"aten.t.default", "aten.transpose.int", "aten.permute.default", "aten.numpy_T.default"}, "mx_t"),
        {"aten.sum.dim_IntList"}, "mx_cast_up_op"),
        {"aten.view.default"}, "mx_view_op"),
        {"aten._to_copy.default"}, "autocast_to_copy")

MX_OPS_TABLE ==
    implements(implements(implements(implements(implements(implements(implements(EmptyTable,
        {"aten.detach.default"}, "mx_desugar_op"),
        {"aten.mm.default", "aten.matmul.default"}, "mx_mm"),
        {"aten.addmm.default"}, "mx_addmm"),
        {"aten.t.default"}, "mx_t"),
        {"aten.sum.dim_IntList"}, "mx_cast_up_op"),
        {"aten.view.default"}, "mx_view_op"),
        {"aten._to_copy.default"}, "autocast_to_copy")

\* MX_OPS_TABLE[func](func, args, kwargs)
CallHandler(func, h, aten_op, args, kwargs) ==
    CASE func = "mx_desugar_op"    -> mx_desugar_op(h, aten_op, args, kwargs)
      [] func = "mx_mm"            -> mx_mm(h, aten_op, args, kwargs)
      [] func = "mx_addmm"         -> mx_addmm(h, aten_op, args, kwargs)
      [] func = "mx_t"             -> mx_t(h, aten_op, args, kwargs)
      [] func = "mx_cast_up_op"    -> mx_cast_up_op(h, aten_op, args, kwargs)
      [] func = "mx_view_op"       -> mx_view_op(h, aten_op, args, kwargs)
      [] func = "autocast_to_copy" -> autocast_to_copy(h, aten_op, args, kwargs)

\* MXTensor.__torch_dispatch__: the handler registered for func, or NotImplementedError
torch_dispatch(h, func, args, kwargs) ==
    IF func \in DOMAIN MX_OPS_TABLE
    THEN CallHandler(MX_OPS_TABLE[func], h, func, args, kwargs)
    ELSE Outcome(h, Raise("NotImplementedError"))

\* ---- the program ----
\* a valid MXTensor as to_mx leaves it: one exponent per block of block_size elements
ValidMXTensor(elem_dtype, blocks, block_size, orig_dtype) ==
    LET bytes == IF IsFp4(elem_dtype) THEN (blocks * block_size) \div 2 ELSE blocks * block_size
        shape == IF IsFp4(elem_dtype) THEN <<blocks, block_size \div 2>> ELSE <<blocks, block_size>>
    IN  [scale_e8m0 |-> [i \in 1 .. blocks |-> 126 + i],
         data       |-> Tensor(IF IsFp4(elem_dtype) THEN "uint8" ELSE elem_dtype, shape, FALSE,
                               [i \in 1 .. bytes |-> i]),
         elem_dtype |-> elem_dtype,
         block_size |-> block_size,
         orig_dtype |-> orig_dtype]

\* a plain high-precision tensor
PlainTensor == Tensor("float32", <<1>>, FALSE, <<0>>)

InitMX ==
    /\ mod = None
    /\ toggled = TRUE
    /\ lastCall = Call("none", <<>>, None, Return(None))
    /\ tree = IdleTree
    /\ forwarded = FALSE
    /\ \E elem_dtype \in ElemDtypes, blocks \in 1 .. MaxBlocks, block_size \in BlockSizes, orig_dtype \in OrigDtypes :
          heap = <<ValidMXTensor(elem_dtype, blocks, block_size, orig_dtype)>>
    /\ cur = 1
    /\ made = <<[op |-> "to_mx", from |-> 0]>>
    /\ mxCall = Call("none", <<>>, None, Return(None))

\* the logical element count of an MXTensor object
LogicalNumel(x) == IF IsFp4(x.elem_dtype) THEN 2 * numel(x.data) ELSE numel(x.data)

\* the shapes a caller may ask view for: the ones holding as many elements as the
\* tensor, the ones holding one element per row more, and one holding half as many
ViewSizes(x) ==
    LET n == LogicalNumel(x)
    IN  {<<n>>, <<n \div 2>>}
        \cup {s \in {<<a, b>> : a \in 1 .. n, b \in 1 .. (n + 1)} :
                    s[1] * s[2] = n \/ s[1] * s[2] = n + s[1]}
        \cup {<<1, a, n \div a>> : a \in {d \in 1 .. n : n % d = 0 /\ d > 1 /\ d < n}}

\* one operator call reaching __torch_dispatch__, start to finish; an exception
\* propagates to the caller, so a program whose last call raised makes no further call
Dispatch(func, args, kwargs) ==
    /\ mxCall.status = "ok"
    /\ \E r \in {torch_dispatch(heap, func, args, kwargs)} :
        /\ Len(r.heap) <= MaxOps + 1
        /\ heap' = r.heap
        /\ made' = IF Len(r.heap) > Len(heap)
                   THEN Append(made, [op |-> func, from |-> args[1].id])
                   ELSE made
        /\ cur' = IF r.status = "ok" /\ isinstance(r.ret, "MXTensor") THEN r.ret.id ELSE cur
        /\ mxCall' = Call(func, <<args, kwargs>>, heap, r)
        /\ UNCHANGED <<qatVars, treeVars>>

Detach ==
    Dispatch("aten.detach.default", <<MXRef(cur)>>, EmptyDict)

Transpose ==
    Dispatch("aten.t.default", <<MXRef(cur)>>, EmptyDict)

OtherTransposeForms ==
    {<<"aten.transpose.int", <<MXRef(cur), IntArg(0), IntArg(1)>>>>,
     <<"aten.permute.default", <<MXRef(cur), IntList(<<1, 0>>)>>>>,
     <<"aten.numpy_T.default", <<MXRef(cur)>>>>}

OtherTranspose ==
    \E form \in OtherTransposeForms :
        Dispatch(form[1], form[2], EmptyDict)

View ==
    \E size \in ViewSizes(heap[cur]) :
        Dispatch("aten.view.default", <<MXRef(cur), IntList(size)>>, EmptyDict)

CastKwargs ==
    {EmptyDict, DeviceKw, DtypeDeviceKw("float16")}
    \cup {DtypeKw(d) : d \in {"float16", "bfloat16", "float32", "int8"}}

CastArgs ==
    {<<MXRef(cur), kwargs>> : kwargs \in CastKwargs} \cup {<<PlainTensor, DtypeKw("float16")>>}

Autocast ==
    \E call \in CastArgs :
        Dispatch("aten._to_copy.default", <<call[1]>>, call[2])

MmArgs ==
    {<<MXRef(cur), MXRef(1)>>, <<MXRef(cur), PlainTensor>>, <<PlainTensor, MXRef(cur)>>}

Mm ==
    \E aten_op \in {"aten.mm.default", "aten.matmul.default"}, args \in MmArgs :
        Dispatch(aten_op, args, EmptyDict)

AddmmArgs ==
    {<<PlainTensor, MXRef(cur), MXRef(1)>>, <<MXRef(1), MXRef(cur), MXRef(1)>>,
     <<PlainTensor, PlainTensor, MXRef(cur)>>, <<PlainTensor, MXRef(cur), PlainTensor>>}

Addmm ==
    \E args \in AddmmArgs :
        Dispatch("aten.addmm.default", args, EmptyDict)

Sum ==
    Dispatch("aten.sum.dim_IntList", <<MXRef(cur), IntList(<<0>>)>>, EmptyDict)

NextMX ==
    \/ Detach
    \/ Transpose
    \/ OtherTranspose
    \/ View
    \/ Autocast
    \/ Mm
    \/ Addmm
    \/ Sum

SpecMX == InitMX /\ [][NextMX]_vars

(***************************************************************************)
(* Properties of the QAT layers                                            *)
(***************************************************************************)
Is8da4w(m) == isinstance(m, "Int8DynActInt4WeightQATLinear")
Is4w(m)    == isinstance(m, "Int4WeightOnlyQATLinear")

\* the per-token 8-bit fake quantization of an activation
ActFQ8(x) ==
    LET qp == choose_qparams_per_token_asymmetric(x, 0 - 128, 127)
    IN  fake_quantize_per_token(x, qp.scale, qp.zero_point, 0 - 128, 127)

\* the per-group symmetric 4-bit fake quantization of a weight
WeightFQ4Sym(w, groupsize) ==
    LET qp == get_group_qparams_symmetric(w, 4, groupsize)
    IN  fake_quantize_per_channel_group(w, qp.scales, qp.zeros, 0 - 8, 7, groupsize, "INT")

\* the per-group asymmetric 4-bit fake quantization of a weight, float-domain zero point
WeightFQ4Affine(w, groupsize) ==
    LET qp == get_groupwise_affine_qparams(w, 4, groupsize)
    IN  fake_quantize_per_channel_group(w, qp.scales, qp.zeros, 0, 15, groupsize, "FLOAT")

StepsEnabled8da4w ==
    <<[fn |-> "fake_quantize_per_token", on |-> "x", qmin |-> 0 - 128, qmax |-> 127],
      [fn |-> "fake_quantize_per_channel_group", on |-> "weight", qmin |-> 0 - 8, qmax |-> 7]>>

\* C1: a forward of Int8DynActInt4WeightQATLinear with the flag False returns exactly
\* linear(x, weight), with neither operand passed through a quantization step; with
\* the flag True the activation is fake-quantized per token over [-128, 127] and the
\* weight per group over [-8, 7]; either way the last operation is linear(activation,
\* weight) without a bias.
C1_ForwardContract ==
    (lastCall.op = "forward" /\ Is8da4w(lastCall.self)) =>
        LET m == lastCall.self
            x == lastCall.args[1]
            r == lastCall.ret
        IN  /\ lastCall.status = "ok"
            /\ r.linear_bias = None
            /\ r.out = F_linear(r.x_fq, r.w_fq)
            /\ ~m.fake_quant_enabled =>
                  /\ r.steps = <<>>
                  /\ r.x_fq = x
                  /\ r.w_fq = m.weight
                  /\ r.out = F_linear(x, m.weight)
            /\ m.fake_quant_enabled =>
                  /\ r.steps = StepsEnabled8da4w
                  /\ r.x_fq = ActFQ8(x)
                  /\ r.w_fq = WeightFQ4Sym(m.weight, m.groupsize)

\* a forward with the flag True whose result differs from the full-precision linear
C1_Witness ==
    /\ lastCall.op = "forward"
    /\ Is8da4w(lastCall.self)
    /\ lastCall.self.fake_quant_enabled
    /\ lastCall.ret.w_fq # lastCall.self.weight
    /\ lastCall.ret.x_fq # lastCall.args[1]
    /\ lastCall.ret.out # F_linear(lastCall.args[1], lastCall.self.weight)

\* C2: the flag of an Int8DynActInt4WeightQATLinear is True at construction and is
\* always the value the most recent toggle asked for; a forward computes from that
\* flag and from the weight current at the call, and changes neither; the module
\* visitors change the flag of Int8DynActInt4WeightQATLinear instances only and
\* leave any other module as it was.
C2_ToggleStateMachine ==
    /\ (lastCall.op = "Int8DynActInt4WeightQATLinear" /\ lastCall.status = "ok") =>
          mod.fake_quant_enabled = TRUE
    /\ Is8da4w(mod) => mod.fake_quant_enabled = toggled
    /\ (lastCall.op = "forward" /\ Is8da4w(mod)) =>
          /\ mod = lastCall.self
          /\ lastCall.ret.steps = (IF toggled THEN StepsEnabled8da4w ELSE <<>>)
          /\ lastCall.ret.w_fq =
                (IF toggled THEN WeightFQ4Sym(mod.weight, mod.groupsize) ELSE mod.weight)
          /\ lastCall.ret.x_fq =
                (IF toggled THEN ActFQ8(lastCall.args[1]) ELSE lastCall.args[1])
          /\ lastCall.ret.out = F_linear(lastCall.ret.x_fq, lastCall.ret.w_fq)
    /\ lastCall.op \in {"enable_8da4w_fake_quant", "disable_8da4w_fake_quant"} =>
          IF Is8da4w(lastCall.self)
          THEN mod = [lastCall.self EXCEPT
                        !.fake_quant_enabled = (lastCall.op = "enable_8da4w_fake_quant")]
          ELSE mod = lastCall.self

\* a forward after the flag was switched off: no quantization step ran
C2_Witness ==
    /\ lastCall.op = "forward"
    /\ Is8da4w(mod)
    /\ ~toggled
    /\ lastCall.ret.steps = <<>>
    /\ WeightFQ4Sym(mod.weight, mod.groupsize) # mod.weight

C4_ConstructionRejects ==
    /\ lastCall.op = "Int8DynActInt4WeightQATLinear" =>
          IF lastCall.args.in_features % lastCall.args.groupsize # 0 \/ lastCall.args.bias
          THEN lastCall.status = "AssertionError" /\ lastCall.ret = None /\ mod = None
          ELSE /\ lastCall.status = "ok"
               /\ lastCall.ret = mod
               /\ Is8da4w(mod)
               /\ mod.fake_quant_enabled
               /\ mod.groupsize = lastCall.args.groupsize
    /\ (lastCall.op = "Int4WeightOnlyQATLinear" /\ lastCall.args.bias) =>
          lastCall.status = "AssertionError" /\ lastCall.ret = None /\ mod = None
    /\ mod = None => ~ENABLED Forward
    /\ Is8da4w(mod) => mod.in_features % mod.groupsize = 0 /\ ~mod.bias
    /\ Is4w(mod) => ~mod.bias

\* the specification's scenario: in_features=256, groupsize=100 is refused
C4_Witness ==
    /\ lastCall.op = "Int8DynActInt4WeightQATLinear"
    /\ lastCall.args = [in_features |-> 256, groupsize |-> 100, bias |-> FALSE]
    /\ lastCall.status = "AssertionError"
    /\ mod = None

(***************************************************************************)
(* Properties of convert                                                   *)
(***************************************************************************)
\* the quantized layer convert must leave in place of a QAT layer
ExpectedQuantized(child) ==
    LET qp == get_group_qparams_symmetric(child.weight, 4, child.groupsize)
    IN  [cls              |-> "Int8DynActInt4WeightLinear",
         in_features      |-> child.in_features,
         out_features     |-> child.out_features,
         bias             |-> FALSE,
         groupsize        |-> child.groupsize,
         precision        |-> child.precision,
         scales_precision |-> child.scales_precision,
         weight           |-> quantize_per_channel_group(child.weight, qp.scales, qp.zeros,
                                                         0 - 8, 7, child.groupsize),
         scales           |-> qp.scales,
         zeros            |-> qp.zeros]

\* node n sat below a QAT layer other than the model itself
BelowLayer(t, n) ==
    \E a \in Nodes \ {1} : Is8da4w(t[a].m) /\ n \in Descendants(t, a)

\* C9: after convert(model) no Int8DynActInt4WeightQATLinear is left among the
\* descendants of the model: each was replaced, under the same attribute of the same
\* parent, by an Int8DynActInt4WeightLinear with the child's in_features,
\* out_features, groupsize, precision and scales_precision, bias=False, and weight,
\* scales and zeros computed from the child's weight at that moment, whatever its
\* flag and whether or not a forward ever ran; every other module is left in place;
\* the traversal takes every module at most once.
C9_ConvertReplacesAll ==
    lastCall.op = "convert" =>
        LET before  == lastCall.self
            after   == lastCall.ret
            visited == lastCall.args
        IN  /\ \A n \in Descendants(after, 1) : ~Is8da4w(after[n].m)
            /\ after[1] = before[1]
            /\ \A n \in Nodes \ {1} :
                  IF ~IsLive(before, n) \/ BelowLayer(before, n) THEN after[n] = Detached
                  ELSE IF Is8da4w(before[n].m)
                       THEN /\ after[n].parent = before[n].parent
                            /\ after[n].m = ExpectedQuantized(before[n].m)
                       ELSE after[n] = before[n]
            /\ Cardinality(Range(visited)) = Len(visited)
            /\ Range(visited) \subseteq Nodes \ {1}

\* a layer two levels down, switched off, retrained and never called, was converted
C9_Witness ==
    /\ lastCall.op = "convert"
    /\ tree = lastCall.ret
    /\ ~forwarded
    /\ \E n \in Nodes \ {1} :
          /\ lastCall.self[n].parent # 1
          /\ Is8da4w(lastCall.self[n].m)
          /\ ~lastCall.self[n].m.fake_quant_enabled
          /\ lastCall.self[n].m.weight = <<Pattern(2, 0 - 1, 2)>>
          /\ tree[n].m.cls = "Int8DynActInt4WeightLinear"
          /\ tree[n].m.weight \in {<<<<0 - 4, 7>>>>, <<<<0 - 7, 7>>>>}

(***************************************************************************)
(* Properties of the MXTensor operator table                               *)
(***************************************************************************)
CallArgs   == mxCall.args[1]
CallKwargs == mxCall.args[2]
\* the heap when the last call was made
Pre        == mxCall.self

Failed(exception) ==
    /\ mxCall.status = exception
    /\ mxCall.ret.cls = "NoneType"
    /\ heap = Pre

\* the last call returned an MXTensor object that did not exist before it and
\* left every object that did as it was
ReturnedNew ==
    /\ mxCall.status = "ok"
    /\ mxCall.ret.cls = "MXTensor"
    /\ mxCall.ret.id \in DOMAIN heap
    /\ mxCall.ret.id \notin DOMAIN Pre
    /\ \A i \in DOMAIN Pre : heap[i] = Pre[i]

\* t is the plain tensor decoding x to x's own orig_dtype
DecodedFrom(t, x) ==
    /\ t.cls = "Tensor"
    /\ t.dtype = x.orig_dtype
    /\ t.value.fn = "to_dtype"
    /\ t.value.scale_e8m0 = x.scale_e8m0
    /\ t.value.data = x.data
    /\ t.value.elem_dtype = x.elem_dtype
    /\ t.value.block_size = x.block_size

\* C5: mx_mm (mm and matmul) fails its assertion unless args[0] and args[1] are both
\* MXTensor, mx_addmm unless args[1] and args[2] are; when the assertion passes the
\* native operator is called on each MXTensor operand decoded to its own orig_dtype
\* (the bias of addmm as given) and what it returns is returned as the plain tensor
\* it is; no MXTensor object is made.
C5_ComputeHandlers ==
    /\ mxCall.op \in {"aten.mm.default", "aten.matmul.default"} =>
          LET a == CallArgs[1]
              b == CallArgs[2]
          IN  IF ~(a.cls = "MXTensor" /\ b.cls = "MXTensor")
              THEN Failed("AssertionError")
              ELSE /\ heap = Pre
                   /\ mxCall.status # "ok" => Failed("RuntimeError")
                   /\ mxCall.status = "ok" =>
                         /\ mxCall.ret.cls = "Tensor"
                         /\ mxCall.ret.value.fn = mxCall.op
                         /\ Len(mxCall.ret.value.args) = 2
                         /\ DecodedFrom(mxCall.ret.value.args[1], Pre[a.id])
                         /\ DecodedFrom(mxCall.ret.value.args[2], Pre[b.id])
    /\ mxCall.op = "aten.addmm.default" =>
          LET a == CallArgs[1]
              b == CallArgs[2]
              c == CallArgs[3]
          IN  IF ~(b.cls = "MXTensor" /\ c.cls = "MXTensor")
              THEN Failed("AssertionError")
              ELSE /\ heap = Pre
                   /\ mxCall.ret.cls # "MXTensor"
                   /\ mxCall.status = "ok" =>
                         /\ mxCall.ret.cls = "Tensor"
                         /\ mxCall.ret.value.fn = mxCall.op
                         /\ Len(mxCall.ret.value.args) = 3
                         /\ mxCall.ret.value.args[1] = a
                         /\ DecodedFrom(mxCall.ret.value.args[2], Pre[b.id])
                         /\ DecodedFrom(mxCall.ret.value.args[3], Pre[c.id])

\* addmm of a plain bias and two distinct MXTensor objects returned a plain tensor
C5_Witness ==
    /\ mxCall.op = "aten.addmm.default"
    /\ mxCall.status = "ok"
    /\ CallArgs[1] = PlainTensor
    /\ CallArgs[2] # CallArgs[3]
    /\ mxCall.ret.shape = <<4, 4>>

RewrapOps == {"aten.detach.default", "aten.t.default", "aten.view.default"}

\* object k came from the first object through rewrap operators only
RECURSIVE RewrapOnly(_)
RewrapOnly(k) ==
    k = 1 \/ (made[k].op \in RewrapOps /\ RewrapOnly(made[k].from))

\* C6: whatever sequence of detach, aten.t and view is applied, every result is a
\* new MXTensor object with the scale, elem_dtype, block_size and orig_dtype of the
\* tensor the sequence started from; the call replaces only the data, by the native
\* operator applied to the argument's data, and leaves its argument as it was.
C6_RewrapPreserves ==
    /\ \A k \in DOMAIN heap :
          RewrapOnly(k) =>
              /\ heap[k].scale_e8m0 = heap[1].scale_e8m0
              /\ heap[k].elem_dtype = heap[1].elem_dtype
              /\ heap[k].block_size = heap[1].block_size
              /\ heap[k].orig_dtype = heap[1].orig_dtype
    /\ (mxCall.op \in RewrapOps /\ mxCall.status = "ok") =>
          LET old == Pre[CallArgs[1].id]
              new == heap[mxCall.ret.id]
          IN  /\ ReturnedNew
              /\ new.scale_e8m0 = old.scale_e8m0
              /\ new.elem_dtype = old.elem_dtype
              /\ new.block_size = old.block_size
              /\ new.orig_dtype = old.orig_dtype
              /\ new.data.value = old.data.value
              /\ new.data.dtype = old.data.dtype
              /\ Prod(new.data.shape) = Prod(old.data.shape)
              /\ mxCall.op = "aten.detach.default" => new.data = old.data
    /\ (mxCall.op \in RewrapOps /\ mxCall.status # "ok") => heap = Pre

\* a 4-bit tensor was transposed and the result viewed
C6_Witness ==
    /\ Len(heap) = 3
    /\ IsFp4(heap[1].elem_dtype)
    /\ made[2].op = "aten.t.default"
    /\ made[3].op = "aten.view.default"
    /\ heap[3].data.shape # heap[2].data.shape
    /\ heap[2].data.shape # heap[1].data.shape

\* C7: aten._to_copy returns only when args[0] is an MXTensor and kwargs is exactly
\* {dtype: d} with d float16 or bfloat16; otherwise an assertion fails, nothing is
\* returned and no object is made.  What it returns is a new MXTensor with the
\* argument's scale, data, elem_dtype and block_size and with orig_dtype d.
C7_AutocastContract ==
    mxCall.op = "aten._to_copy.default" =>
        LET x      == CallArgs[1]
            kwargs == CallKwargs.items
        IN  IF /\ x.cls = "MXTensor"
               /\ DOMAIN kwargs = {"dtype"}
               /\ kwargs["dtype"] \in {"float16", "bfloat16"}
            THEN /\ ReturnedNew
                 /\ heap[mxCall.ret.id].scale_e8m0 = Pre[x.id].scale_e8m0
                 /\ heap[mxCall.ret.id].data = Pre[x.id].data
                 /\ heap[mxCall.ret.id].elem_dtype = Pre[x.id].elem_dtype
                 /\ heap[mxCall.ret.id].block_size = Pre[x.id].block_size
                 /\ heap[mxCall.ret.id].orig_dtype = kwargs["dtype"]
            ELSE Failed("AssertionError")

\* a transposed float32 tensor was cast to bfloat16
C7_Witness ==
    /\ mxCall.op = "aten._to_copy.default"
    /\ mxCall.status = "ok"
    /\ Pre[CallArgs[1].id].orig_dtype = "float32"
    /\ Pre[CallArgs[1].id].data.transposed
    /\ heap[mxCall.ret.id].orig_dtype = "bfloat16"

\* C8: aten.t on an MXTensor with two-dimensional data returns a new MXTensor whose
\* data is the argument's packed data with its two axes swapped, nothing decoded or
\* repacked; on data of more dimensions it raises; every other transpose form
\* raises and returns nothing.
C8_OnlySimpleTranspose ==
    /\ mxCall.op \in {"aten.transpose.int", "aten.permute.default", "aten.numpy_T.default"} =>
          Failed("NotImplementedError")
    /\ mxCall.op = "aten.t.default" =>
          LET old == Pre[CallArgs[1].id]
          IN  IF Len(old.data.shape) > 2 THEN Failed("RuntimeError")
              ELSE /\ ReturnedNew
                   /\ heap[mxCall.ret.id].data.value = old.data.value
                   /\ heap[mxCall.ret.id].data.dtype = old.data.dtype
                   /\ Len(old.data.shape) = 2 =>
                         heap[mxCall.ret.id].data.shape = <<old.data.shape[2], old.data.shape[1]>>
                   /\ heap[mxCall.ret.id].scale_e8m0 = old.scale_e8m0
                   /\ heap[mxCall.ret.id].elem_dtype = old.elem_dtype
                   /\ heap[mxCall.ret.id].block_size = old.block_size
                   /\ heap[mxCall.ret.id].orig_dtype = old.orig_dtype

\* aten.t had returned a genuinely transposed tensor, then transpose(0, 1) was refused
C8_Witness ==
    /\ mxCall.op = "aten.transpose.int"
    /\ mxCall.status = "NotImplementedError"
    /\ Len(heap) >= 2
    /\ made[2].op = "aten.t.default"
    /\ heap[2].data.transposed
    /\ heap[2].data.shape = <<4, 2>>

\* C10: every MXTensor object reached from a valid one by successful detach, aten.t,
\* view and _to_copy calls holds scale.length * block_size logical elements, two per
\* byte of data for the 4-bit formats and one otherwise; and the data of a view's
\* result has the requested shape, with the packed axis halved for the 4-bit formats.
C10_BlockInvariant ==
    /\ \A k \in DOMAIN heap :
          (IF heap[k].elem_dtype \in {DTYPE_FP4_E2M1, DTYPE_FP4_E3M0} THEN 2 ELSE 1)
              * Prod(heap[k].data.shape)
          = Len(heap[k].scale_e8m0) * heap[k].block_size
    /\ (mxCall.op = "aten.view.default" /\ mxCall.status = "ok") =>
          LET old  == Pre[CallArgs[1].id]
              size == CallArgs[2].items
              axis == IF old.data.transposed THEN 1 ELSE Len(size)
          IN  heap[mxCall.ret.id].data.shape =
                  IF old.elem_dtype \in {DTYPE_FP4_E2M1, DTYPE_FP4_E3M0}
                  THEN [i \in 1 .. Len(size) |-> IF i = axis THEN size[i] \div 2 ELSE size[i]]
                  ELSE size

\* a transposed, no longer contiguous 4-bit tensor was viewed
C10_Witness ==
    /\ mxCall.op = "aten.view.default"
    /\ mxCall.status = "ok"
    /\ heap[1].elem_dtype = DTYPE_FP4_E3M0
    /\ Pre[CallArgs[1].id].data.transposed
    /\ CallArgs[2].items = <<4, 2>>
    /\ heap[mxCall.ret.id].data.shape = <<2, 2>>


====
